---- MODULE Spec2Model ----
(***************************************************************************)
(* A model of codenor/misinfo-dataset: the interactive normaliser          *)
(* (src/index.py: select_column, process_dataframe, main) and the corpus   *)
(* merger (src/scripts/combine.py: combine_processed).                     *)
(*                                                                         *)
(* Text is modelled as a sequence of one-character strings, so that        *)
(* lower(), strip(), isdigit(), int(), splitext() and endswith() are       *)
(* computed character by character, as Python computes them.               *)
(***************************************************************************)
EXTENDS Integers, Sequences, FiniteSets

VARIABLES
    \* select_column
    cols, kind, choice, selected, reported, spc,
    \* process_dataframe (label normalisation)
    raw, label, regime, keep, mapping, npc,
    \* main
    listing, pos, writes, errors, mpc,
    \* combine_processed
    exists, dir, files, fpos, combined, skipLog, summary, output, exitCode, cpc

selVars == <<cols, kind, choice, selected, reported, spc>>
normVars == <<raw, label, regime, keep, mapping, npc>>
mainVars == <<listing, pos, writes, errors, mpc>>
mergeVars == <<exists, dir, files, fpos, combined, skipLog, summary, output, exitCode, cpc>>
vars == <<selVars, normVars, mainVars, mergeVars>>

(***************************************************************************)
(* Bounds of the model.                                                    *)
(***************************************************************************)
MaxCols == 3
MaxRows == 2
MaxFiles == 2

(***************************************************************************)
(* Python text operations.                                                 *)
(***************************************************************************)
Upper == <<"A", "B", "C", "E", "F", "K", "L", "R", "S", "T", "U", "V">>
Lowers == <<"a", "b", "c", "e", "f", "k", "l", "r", "s", "t", "u", "v">>

\* str.lower() on one character
LowerChar(c) ==
    IF \E i \in 1..Len(Upper) : Upper[i] = c
    THEN Lowers[CHOOSE i \in 1..Len(Upper) : Upper[i] = c]
    ELSE c

\* str.lower()
Lower(s) == [i \in 1..Len(s) |-> LowerChar(s[i])]

IsSpace(c) == c \in {" ", "\t"}

RECURSIVE LStrip(_)
LStrip(s) == IF s # <<>> /\ IsSpace(Head(s)) THEN LStrip(Tail(s)) ELSE s

RECURSIVE RStrip(_)
RStrip(s) ==
    IF s # <<>> /\ IsSpace(s[Len(s)]) THEN RStrip(SubSeq(s, 1, Len(s) - 1)) ELSE s

\* str.strip()
Strip(s) == RStrip(LStrip(s))

Digits == <<"0", "1", "2", "3", "4", "5", "6", "7", "8", "9">>

IsDigitChar(c) == \E i \in 1..10 : Digits[i] = c

DigitVal(c) == (CHOOSE i \in 1..10 : Digits[i] = c) - 1

\* str.isdigit(): non-empty and every character a digit
IsDigit(s) == s # <<>> /\ \A i \in 1..Len(s) : IsDigitChar(s[i])

RECURSIVE DigitsToInt(_)
DigitsToInt(s) ==
    IF s = <<>> THEN 0
    ELSE 10 * DigitsToInt(SubSeq(s, 1, Len(s) - 1)) + DigitVal(s[Len(s)])

\* int(text): surrounding blanks and one sign are accepted; anything else
\* raises ValueError (ok = FALSE)
ParseInt(s) ==
    LET t == Strip(s)
        signed == t # <<>> /\ Head(t) \in {"-", "+"}
        body == IF signed THEN Tail(t) ELSE t
    IN  IF IsDigit(body)
        THEN [ok |-> TRUE,
              val |-> IF signed /\ Head(t) = "-" THEN 0 - DigitsToInt(body)
                      ELSE DigitsToInt(body)]
        ELSE [ok |-> FALSE, val |-> 0]

RECURSIVE NatToStr(_)
NatToStr(n) ==
    IF n < 10 THEN <<Digits[n + 1]>>
    ELSE NatToStr(n \div 10) \o <<Digits[(n % 10) + 1]>>

\* str(n) of an integer
IntToStr(n) == IF n < 0 THEN <<"-">> \o NatToStr(0 - n) ELSE NatToStr(n)

\* s.endswith(suffix)
EndsWith(s, suffix) ==
    /\ Len(s) >= Len(suffix)
    /\ SubSeq(s, Len(s) - Len(suffix) + 1, Len(s)) = suffix

\* first index of item in a list (list.index), 0-based
IndexOf(seq, item) == (CHOOSE i \in 1..Len(seq) : seq[i] = item /\ \A j \in 1..(i - 1) : seq[j] # item) - 1

Contains(seq, item) == \E i \in 1..Len(seq) : seq[i] = item

\* all sequences over S of length lo..hi
SeqsOf(S, lo, hi) == UNION {[1..n -> S] : n \in lo..hi}

(***************************************************************************)
(* select_column (src/index.py)                                            *)
(***************************************************************************)
sClaim == <<"c", "l", "a", "i", "m">>
sLabel == <<"l", "a", "b", "e", "l">>
sText == <<"t", "e", "x", "t">>

ColumnNames == {sClaim, sLabel, sText}

\* what the operator may type at the index prompt
IndexAnswers ==
    {<<>>, <<"0">>, <<"1">>, <<"2">>, <<"7">>, <<" ", "1">>, <<"-", "1">>,
     <<"-", "9">>, <<"x">>, <<"1", ".", "0">>}

\* the default index offered for a role
DefaultIdx(cs, k) ==
    IF k = "claim"
    THEN IF Contains(cs, sClaim) THEN IndexOf(cs, sClaim) ELSE 0
    ELSE IF Contains(cs, sLabel) THEN IndexOf(cs, sLabel)
         ELSE IF Len(cs) > 1 THEN 1 ELSE 0

\* Prompt.ask(..., default=d): an empty answer yields the default's text
PromptAsk(answer, default) == IF answer = <<>> THEN default ELSE answer

\* cols[i] with Python's list indexing: -len..-1 count from the end,
\* anything outside -len..len-1 raises IndexError (ok = FALSE)
ListGet(seq, i) ==
    IF 0 <= i /\ i < Len(seq) THEN [ok |-> TRUE, val |-> seq[i + 1]]
    ELSE IF i < 0 /\ 0 - i <= Len(seq) THEN [ok |-> TRUE, val |-> seq[Len(seq) + i + 1]]
    ELSE [ok |-> FALSE, val |-> <<>>]

\* the try/except around cols[int(choice)]
SelectColumn(cs, k, answer) ==
    LET d == DefaultIdx(cs, k)
        ch == PromptAsk(answer, IntToStr(d))
        n == ParseInt(ch)
        got == IF n.ok THEN ListGet(cs, n.val) ELSE [ok |-> FALSE, val |-> <<>>]
    IN  IF got.ok
        THEN [column |-> got.val, reported |-> FALSE, choice |-> ch]
        ELSE [column |-> cs[d + 1], reported |-> TRUE, choice |-> ch]

NormIdle ==
    /\ raw = <<>> /\ label = <<>> /\ regime = "none" /\ keep = TRUE
    /\ mapping = {} /\ npc = "idle"

MainIdle ==
    /\ listing = <<>> /\ pos = 0 /\ writes = <<>> /\ errors = <<>> /\ mpc = "idle"

MergeIdle ==
    /\ exists = FALSE /\ dir = <<>> /\ files = <<>> /\ fpos = 0
    /\ combined = <<>> /\ skipLog = <<>>
    /\ summary = [metrics |-> <<>>, labels |-> {}]
    /\ output = [written |-> FALSE, rows |-> <<>>]
    /\ exitCode = 0 /\ cpc = "idle"

SelIdle ==
    /\ cols = <<>> /\ kind = "claim" /\ choice = <<>> /\ selected = <<>>
    /\ reported = FALSE /\ spc = "idle"

InitSelect ==
    /\ cols \in SeqsOf(ColumnNames, 1, MaxCols)
    /\ kind \in {"claim", "label"}
    /\ choice = <<>> /\ selected = <<>> /\ reported = FALSE
    /\ spc = "prompt"
    /\ NormIdle /\ MainIdle /\ MergeIdle

\* one call of select_column: the operator answers the prompt
Select ==
    /\ spc = "prompt"
    /\ \E answer \in IndexAnswers :
        LET r == SelectColumn(cols, kind, answer)
        IN  /\ choice' = r.choice
            /\ selected' = r.column
            /\ reported' = r.reported
    /\ spc' = "returned"
    /\ UNCHANGED <<cols, kind, normVars, mainVars, mergeVars>>

NextSelect == Select

SpecSelect == InitSelect /\ [][NextSelect]_vars

\* an answer that names a position of the column list: a number in 0..len-1
InRange(cs, ch) == ParseInt(ch).ok /\ ParseInt(ch).val \in 0..(Len(cs) - 1)

\* the default column as the specification words it
SpecDefault(cs, k) ==
    IF k = "claim"
    THEN IF \E i \in 1..Len(cs) : cs[i] = sClaim
         THEN cs[CHOOSE i \in 1..Len(cs) : cs[i] = sClaim /\ \A j \in 1..(i - 1) : cs[j] # sClaim]
         ELSE cs[1]
    ELSE IF \E i \in 1..Len(cs) : cs[i] = sLabel
         THEN cs[CHOOSE i \in 1..Len(cs) : cs[i] = sLabel /\ \A j \in 1..(i - 1) : cs[j] # sLabel]
         ELSE IF Len(cs) >= 2 THEN cs[2] ELSE cs[1]

\* C6: select_column returns the column at the answered index only when the
\* answer is a numeric index within range of the column list; every
\* out-of-range or non-numeric answer yields the computed default column and
\* is reported.
C6_SelectOnlyInRange ==
    spc = "returned" =>
        IF InRange(cols, choice)
        THEN selected = cols[ParseInt(choice).val + 1] /\ ~reported
        ELSE selected = SpecDefault(cols, kind) /\ reported

(***************************************************************************)
(* process_dataframe (src/index.py): the label column                      *)
(*                                                                         *)
(* A cell is a Python value: a str, an int, or a float (NaN, or a whole    *)
(* number n.0).                                                            *)
(***************************************************************************)
StrV(s) == [t |-> "str", s |-> s]
IntV(n) == [t |-> "int", n |-> n]
FloatV(n) == [t |-> "float", nan |-> FALSE, n |-> n]
NaN == [t |-> "float", nan |-> TRUE, n |-> 0]

sTrue == <<"t", "r", "u", "e">>
sFake == <<"f", "a", "k", "e">>

\* the cells a label column is drawn from
LabelValues ==
    {StrV(sTrue), StrV(<<"T", "r", "u", "e">>), StrV(<<"F", "A", "K", "E">>),
     StrV(<<"n", "o">>), StrV(<<"0">>), StrV(<<"1">>),
     IntV(0), IntV(1), IntV(2), NaN, FloatV(1)}

\* str(v)
Str(v) ==
    IF v.t = "str" THEN v.s
    ELSE IF v.t = "int" THEN IntToStr(v.n)
    ELSE IF v.nan THEN <<"n", "a", "n">>
    ELSE IntToStr(v.n) \o <<".", "0">>

\* int(v) for a value that passed str(v).isdigit()
IntOf(v) == IF v.t = "int" THEN v.n ELSE ParseInt(Str(v)).val

\* Python's v == n for an integer n
PyEq(v, n) ==
    \/ v.t = "int" /\ v.n = n
    \/ v.t = "float" /\ ~v.nan /\ v.n = n

HasStr(col) == \E i \in 1..Len(col) : col[i].t = "str"
HasInt(col) == \E i \in 1..Len(col) : col[i].t = "int"
HasFloat(col) == \E i \in 1..Len(col) : col[i].t = "float"

\* a pandas column holding numbers only is int64 or float64, never both
IsColumn(col) == ~(HasInt(col) /\ HasFloat(col) /\ ~HasStr(col))

LabelColumns == {c \in SeqsOf(LabelValues, 0, MaxRows) : IsColumn(c)}

\* df[label_col].unique()
Unique(col) == {col[i] : i \in 1..Len(col)}

\* sorted(...) raises TypeError when it must compare a str with a number
SortedRaises(col) == HasStr(col) /\ (HasInt(col) \/ HasFloat(col))

\* default_mapping = {"true": 1, "fake": 0}
default_mapping == {[key |-> sTrue, val |-> 1], [key |-> sFake, val |-> 0]}

MappingKeys(m) == {e.key : e \in m}
MappingGet(m, k) == (CHOOSE e \in m : e.key = k).val

\* lower_labels = [str(v).lower() for v in unique_vals]
LowerLabels(col) == {Lower(Str(v)) : v \in Unique(col)}

\* any(lbl in lower_labels for lbl in default_mapping.keys())
IsTextual(col) == \E k \in MappingKeys(default_mapping) : k \in LowerLabels(col)

\* the numeric test without its subset-of-{0,1} half
IsNumericBinary_AnyDigits(col) == \A v \in Unique(col) : IsDigit(Str(v))

\* all(str(v).isdigit() ...) and set(map(int, unique_vals)).issubset({0, 1})
IsNumericBinary(col) ==
    /\ \A v \in Unique(col) : IsDigit(Str(v))
    /\ {IntOf(v) : v \in Unique(col)} \subseteq {0, 1}

\* the if / elif / else of the label remapping
Regime(col) ==
    IF IsTextual(col) THEN "textual"
    ELSE IF IsNumericBinary(col) THEN "numeric"
    ELSE "categorical"

\* the lookup key without .str.lower()
MapKey_CaseSensitive(v) == Str(v)

\* .astype(str).str.lower(): the key a cell is looked up by
MapKey(v) == Lower(Str(v))

\* .map(default_mapping): unmatched cells become NaN, and a column that
\* holds a NaN holds its numbers as floats
MapDefault(col) ==
    LET hit(i) == MapKey(col[i]) \in MappingKeys(default_mapping)
        allHit == \A i \in 1..Len(col) : hit(i)
    IN  [i \in 1..Len(col) |->
            IF hit(i)
            THEN IF allHit THEN IntV(MappingGet(default_mapping, MapKey(col[i])))
                 ELSE FloatV(MappingGet(default_mapping, MapKey(col[i])))
            ELSE NaN]

\* the textual branch without its .fillna(...)
FillNa_Dropped(col, other) == col

\* .fillna(other): every NaN cell takes the cell of other at the same row
FillNa(col, other) ==
    [i \in 1..Len(col) |-> IF col[i] = NaN THEN other[i] ELSE col[i]]

\* the textual branch
TextualApply(col) == FillNa(MapDefault(col), col)

\* df[label_col].apply(lambda x: 0 if x == 1 else 1)
FlipApply(col) == [i \in 1..Len(col) |-> IF PyEq(col[i], 1) THEN IntV(0) ELSE IntV(1)]

\* what the operator may type for one value of a manual remap
RemapAnswers == {<<>>, <<"1">>, <<"0">>, <<"n", "o">>}

\* mapping[val] = int(new_val) if new_val.isdigit() else new_val, for every
\* value with a non-empty answer
BuildMapping(col, answers) ==
    {[key |-> v,
      val |-> IF IsDigit(answers[v]) THEN IntV(DigitsToInt(answers[v])) ELSE StrV(answers[v])]
        : v \in {u \in Unique(col) : answers[u] # <<>>}}

\* df[label_col].replace(mapping)
Replace(col, m) ==
    [i \in 1..Len(col) |->
        IF col[i] \in MappingKeys(m) THEN MappingGet(m, col[i]) ELSE col[i]]

InitNormalize ==
    /\ raw \in LabelColumns
    /\ label = raw
    /\ regime = "none" /\ keep = TRUE /\ mapping = {}
    /\ npc = "loaded"
    /\ SelIdle /\ MainIdle /\ MergeIdle

\* sorted(df[label_col].unique()) raises: process_dataframe is left by the
\* exception, nothing is normalised or saved
PreviewRaises ==
    /\ npc = "loaded"
    /\ SortedRaises(raw)
    /\ npc' = "raised"
    /\ UNCHANGED <<raw, label, regime, keep, mapping, selVars, mainVars, mergeVars>>

TextualBranch ==
    /\ npc = "loaded"
    /\ ~SortedRaises(raw)
    /\ Regime(raw) = "textual"
    /\ label' = TextualApply(raw)
    /\ regime' = "textual"
    /\ npc' = "saved"
    /\ UNCHANGED <<raw, keep, mapping, selVars, mainVars, mergeVars>>

NumericBranch ==
    /\ npc = "loaded"
    /\ ~SortedRaises(raw)
    /\ Regime(raw) = "numeric"
    /\ \E k \in BOOLEAN :
        /\ keep' = k
        /\ label' = IF k THEN raw ELSE FlipApply(raw)
    /\ regime' = "numeric"
    /\ npc' = "saved"
    /\ UNCHANGED <<raw, mapping, selVars, mainVars, mergeVars>>

CategoricalRemap ==
    /\ npc = "loaded"
    /\ ~SortedRaises(raw)
    /\ Regime(raw) = "categorical"
    /\ \E answers \in [Unique(raw) -> RemapAnswers] :
        LET m == BuildMapping(raw, answers)
        IN  /\ mapping' = m
            /\ label' = IF m # {} THEN Replace(raw, m) ELSE raw
    /\ regime' = "remapped"
    /\ npc' = "saved"
    /\ UNCHANGED <<raw, keep, selVars, mainVars, mergeVars>>

CategoricalDecline ==
    /\ npc = "loaded"
    /\ ~SortedRaises(raw)
    /\ Regime(raw) = "categorical"
    /\ regime' = "declined"
    /\ npc' = "saved"
    /\ UNCHANGED <<raw, label, keep, mapping, selVars, mainVars, mergeVars>>

NextNormalize ==
    \/ PreviewRaises
    \/ TextualBranch
    \/ NumericBranch
    \/ CategoricalRemap
    \/ CategoricalDecline

SpecNormalize == InitNormalize /\ [][NextNormalize]_vars

(***************************************************************************)
(* Properties of the label normalisation                                   *)
(***************************************************************************)
Vocabulary == {sTrue, sFake}

\* the column's distinct values, string-cast and lower-cased, all lie in
\* the vocabulary, and there is at least one
AllVocabulary(col) ==
    col # <<>> /\ \A i \in 1..Len(col) : Lower(Str(col[i])) \in Vocabulary

\* a cell is still a textual label of the vocabulary
IsVocabularyText(v) == v.t = "str" /\ Lower(v.s) \in Vocabulary

\* C1: for a label column whose distinct values, string-cast and lower-cased,
\* are a subset of {"true","fake"}, the normalised column has 1 at every row
\* whose raw value lower-cases to "true", 0 at every row whose raw value
\* lower-cases to "fake", and no row still holds a text of the vocabulary.
C1_TextualMapsAll ==
    (npc = "saved" /\ AllVocabulary(raw)) =>
        /\ Len(label) = Len(raw)
        /\ \A i \in 1..Len(raw) :
            /\ Lower(Str(raw[i])) = sTrue => label[i] = IntV(1)
            /\ Lower(Str(raw[i])) = sFake => label[i] = IntV(0)
            /\ ~IsVocabularyText(label[i])

C1_Witness ==
    /\ npc = "saved"
    /\ raw = <<StrV(<<"T", "r", "u", "e">>), StrV(<<"F", "A", "K", "E">>)>>
    /\ label = <<IntV(1), IntV(0)>>

\* the integer a cell stands for, in any representation the integer-literal
\* test accepts
Stands(v, n) == IsDigit(Str(v)) /\ IntOf(v) = n

\* C2: in the numeric-binary branch, when the operator rejects the proposed
\* convention every 0 becomes 1 and every 1 becomes 0, and flipping twice
\* gives the original column back.
C2_FlipIsInvolution ==
    (npc = "saved" /\ regime = "numeric" /\ ~keep) =>
        /\ Len(label) = Len(raw)
        /\ \A i \in 1..Len(raw) :
            /\ Stands(raw[i], 0) => Stands(label[i], 1)
            /\ Stands(raw[i], 1) => Stands(label[i], 0)
            /\ Stands(FlipApply(label)[i], IntOf(raw[i]))

\* whether a raw cell is covered by the mapping the chosen regime applied
Covered(v) ==
    IF regime = "textual" THEN Lower(Str(v)) \in Vocabulary
    ELSE IF regime = "numeric" THEN ~keep /\ (Stands(v, 0) \/ Stands(v, 1))
    ELSE IF regime = "remapped" THEN v \in MappingKeys(mapping)
    ELSE FALSE

\* C9: in every regime the label column keeps its row count and row order,
\* every row whose raw value is not covered by the chosen mapping holds
\* exactly its original value afterwards (never a missing value put in its
\* place), and a declined categorical remap leaves the column unmodified.
C9_UncoveredRowsKept ==
    npc = "saved" =>
        /\ Len(label) = Len(raw)
        /\ \A i \in 1..Len(raw) : ~Covered(raw[i]) => label[i] = raw[i]
        /\ regime = "textual" =>
            \A i \in 1..Len(raw) :
                /\ Lower(Str(raw[i])) = sTrue => PyEq(label[i], 1)
                /\ Lower(Str(raw[i])) = sFake => PyEq(label[i], 0)
        /\ regime = "remapped" =>
            \A i \in 1..Len(raw) :
                Covered(raw[i]) => label[i] = MappingGet(mapping, raw[i])
        /\ regime = "declined" => label = raw

\* a textual column with one value outside the vocabulary: the row outside
\* keeps its text
C9_Witness ==
    /\ npc = "saved" /\ regime = "textual"
    /\ raw = <<StrV(sTrue), StrV(<<"n", "o">>)>>
    /\ label[2] = StrV(<<"n", "o">>)
    /\ PyEq(label[1], 1)

\* the regime the claim assigns to a set of distinct label values
ClaimedRegime(vals) ==
    IF {Lower(Str(v)) : v \in vals} \cap Vocabulary # {} THEN "textual"
    ELSE IF (\A v \in vals : IsDigit(Str(v))) /\ {IntOf(v) : v \in vals} \subseteq {0, 1}
    THEN "numeric"
    ELSE "categorical"

RegimeTaken ==
    IF regime \in {"remapped", "declined"} THEN "categorical" ELSE regime

LastDot(s) ==
    IF \E i \in 1..Len(s) : s[i] = "."
    THEN CHOOSE i \in 1..Len(s) : s[i] = "." /\ \A j \in (i + 1)..Len(s) : s[j] # "."
    ELSE 0

\* os.path.basename
Basename(s) ==
    IF \E i \in 1..Len(s) : s[i] = "/"
    THEN SubSeq(s, (CHOOSE i \in 1..Len(s) : s[i] = "/" /\ \A j \in (i + 1)..Len(s) : s[j] # "/") + 1, Len(s))
    ELSE s

\* os.path.splitext(name)[0]: the text before the last dot, unless only
\* dots precede it
SplitExtRoot(s) ==
    LET d == LastDot(Basename(s))
        b == Len(s) - Len(Basename(s))
    IN  IF d = 0 \/ \A j \in 1..(d - 1) : Basename(s)[j] = "."
        THEN s
        ELSE SubSeq(s, 1, b + d - 1)

extCsv == <<".", "c", "s", "v">>
extDb == <<".", "d", "b">>
outDir == <<"p", "r", "o", "c", "e", "s", "s", "e", "d">>

\* os.path.join(out_dir, f"{base_name}.csv")
OutPath(source_name) == outDir \o <<"/">> \o SplitExtRoot(Basename(source_name)) \o extCsv

\* the names os.listdir may return
EntryNames ==
    {<<"a", ".", "c", "s", "v">>, <<"a", ".", "d", "b">>, <<"b", ".", "C", "S", "V">>,
     <<"n", ".", "t", "x", "t">>, <<"d", ".", "c", "s", "v">>}

\* d.csv is a directory; every other entry is a regular file
IsFile(name) == name # <<"d", ".", "c", "s", "v">>

\* label columns of the tables found behind the entries
SampleColumns ==
    {<<StrV(<<"T", "r", "u", "e">>), StrV(<<"F", "A", "K", "E">>)>>,
     <<IntV(0), IntV(1)>>,
     <<StrV(<<"n", "o">>), IntV(1)>>}

\* what loading an entry gives: no table (the loader caught an exception
\* and returned None), a table without columns, or a table
NoSource == [load |-> "none", ncols |-> 0, col |-> <<>>]

Sources ==
    {NoSource, [load |-> "table", ncols |-> 0, col |-> <<>>]}
    \cup {[load |-> "table", ncols |-> 2, col |-> c] : c \in SampleColumns}

Injective(seq) == \A i, j \in 1..Len(seq) : i # j => seq[i] # seq[j]

Listings ==
    {l \in SeqsOf(EntryNames, 0, MaxFiles) : Injective(l)}

\* file.lower().endswith(".csv") / (".db")
IsCsv(name) == EndsWith(Lower(name), extCsv)
IsDb(name) == EndsWith(Lower(name), extDb)
Dispatched(name) == IsFile(name) /\ (IsCsv(name) \/ IsDb(name))

\* the answers the operator can give to "Does this look correct?": the
\* question is asked in the numeric-binary branch only
KeepAnswers(col) == IF Regime(col) = "numeric" THEN BOOLEAN ELSE {TRUE}

\* the mappings a manual remap can end with; {} when it is declined, when
\* every answer is empty, or when the branch is not the categorical one
RemapChoices(col) ==
    IF Regime(col) = "categorical"
    THEN {BuildMapping(col, a) : a \in [Unique(col) -> RemapAnswers]} \cup {{}}
    ELSE {{}}

\* the label column process_dataframe saves
NormalizeWith(col, k, m) ==
    IF Regime(col) = "textual" THEN TextualApply(col)
    ELSE IF Regime(col) = "numeric" THEN (IF k THEN col ELSE FlipApply(col))
    ELSE IF m # {} THEN Replace(col, m) ELSE col

\* the loop after "except Exception as e: console.print(...)", with the
\* exception escaping instead
AfterException_Escapes == "crashed"

\* the loop after "except Exception as e: console.print(...)": it goes on
AfterException == "loop"

InitMain ==
    /\ \E l \in Listings :
        listing \in {e \in [1..Len(l) -> [name : EntryNames, src : Sources]] :
                        \A i \in 1..Len(l) :
                            /\ e[i].name = l[i]
                            /\ ~Dispatched(l[i]) => e[i].src = NoSource}
    /\ pos = 0 /\ writes = <<>> /\ errors = <<>>
    /\ mpc = "loop"
    /\ SelIdle /\ NormIdle /\ MergeIdle

Current == listing[pos + 1]

\* not a regular file, or neither .csv nor .db: nothing happens
SkipEntry ==
    /\ mpc = "loop" /\ pos < Len(listing)
    /\ ~Dispatched(Current.name)
    /\ pos' = pos + 1
    /\ UNCHANGED <<listing, writes, errors, mpc, selVars, normVars, mergeVars>>

\* read_csv_safely / read_sqlite_safely caught the failure and returned None
LoadFails ==
    /\ mpc = "loop" /\ pos < Len(listing)
    /\ Dispatched(Current.name)
    /\ Current.src.load = "none"
    /\ errors' = Append(errors, [file |-> Current.name, what |-> "load"])
    /\ pos' = pos + 1
    /\ UNCHANGED <<listing, writes, mpc, selVars, normVars, mergeVars>>

\* process_dataframe returns early: no columns
NoColumns ==
    /\ mpc = "loop" /\ pos < Len(listing)
    /\ Dispatched(Current.name)
    /\ Current.src.load = "table" /\ Current.src.ncols = 0
    /\ errors' = Append(errors, [file |-> Current.name, what |-> "nocolumns"])
    /\ pos' = pos + 1
    /\ UNCHANGED <<listing, writes, mpc, selVars, normVars, mergeVars>>

\* process_dataframe raises; main's except clause reports it
ProcessRaises ==
    /\ mpc = "loop" /\ pos < Len(listing)
    /\ Dispatched(Current.name)
    /\ Current.src.load = "table" /\ Current.src.ncols > 0
    /\ SortedRaises(Current.src.col)
    /\ errors' = Append(errors, [file |-> Current.name, what |-> "raised"])
    /\ pos' = pos + 1
    /\ mpc' = AfterException
    /\ UNCHANGED <<listing, writes, selVars, normVars, mergeVars>>

\* process_dataframe normalises the label column and saves the table
ProcessWrites ==
    /\ mpc = "loop" /\ pos < Len(listing)
    /\ Dispatched(Current.name)
    /\ Current.src.load = "table" /\ Current.src.ncols > 0
    /\ ~SortedRaises(Current.src.col)
    /\ \E k \in KeepAnswers(Current.src.col), m \in RemapChoices(Current.src.col) :
        writes' = Append(writes,
            [source |-> Current.name,
             path |-> OutPath(Current.name),
             label |-> NormalizeWith(Current.src.col, k, m)])
    /\ pos' = pos + 1
    /\ UNCHANGED <<listing, errors, mpc, selVars, normVars, mergeVars>>

\* the for loop is exhausted
LoopEnds ==
    /\ mpc = "loop" /\ pos = Len(listing)
    /\ mpc' = "done"
    /\ UNCHANGED <<listing, pos, writes, errors, selVars, normVars, mergeVars>>

NextMain ==
    \/ SkipEntry
    \/ LoadFails
    \/ NoColumns
    \/ ProcessRaises
    \/ ProcessWrites
    \/ LoopEnds

\* the loop is sequential and every prompt is answered: a step that can be
\* taken is taken
SpecMain == InitMain /\ [][NextMain]_vars /\ WF_vars(NextMain)

\* an entry whose own loading and processing does not fail
Healthy(e) ==
    /\ Dispatched(e.name)
    /\ e.src.load = "table" /\ e.src.ncols > 0
    /\ ~SortedRaises(e.src.col)

Failing(e) == Dispatched(e.name) /\ ~Healthy(e)

WrittenFrom(name) == \E i \in 1..Len(writes) : writes[i].source = name

ReportedFor(name) == \E i \in 1..Len(errors) : errors[i].file = name

AllHandled ==
    /\ mpc = "done"
    /\ pos = Len(listing)
    /\ \A i \in 1..Len(listing) :
        /\ Healthy(listing[i]) =>
            \E w \in 1..Len(writes) :
                /\ writes[w].source = listing[i].name
                /\ Len(writes[w].label) = Len(listing[i].src.col)
        /\ Failing(listing[i]) => ReportedFor(listing[i].name) /\ ~WrittenFrom(listing[i].name)

\* C7: a load failure or an error raised while one source is processed is
\* caught at the per-source boundary and reported, and the loop continues:
\* whatever subset of the discovered files fails, the run reaches the end of
\* the file list with every failing file reported and every other .csv/.db
\* file loaded, normalised and written.
C7_LoopSurvivesFailures == <>AllHandled

\* a run that ended after a source raised and a later one was written
C7_Witness ==
    /\ mpc = "done"
    /\ Len(listing) = 2
    /\ Failing(listing[1]) /\ listing[1].src.load = "table" /\ listing[1].src.ncols > 0
    /\ Healthy(listing[2])
    /\ WrittenFrom(listing[2].name)

\* C8: within one run no two distinct sources write the same output path.
C8_OutputPathsDistinct ==
    \A i, j \in 1..Len(writes) :
        writes[i].source # writes[j].source => writes[i].path # writes[j].path

(***************************************************************************)
(* combine_processed (src/scripts/combine.py)                              *)
(***************************************************************************)
\* a per-source file: unreadable, or a header and rows of cells aligned
\* with the header
Table(header, rows) == [readable |-> TRUE, header |-> header, rows |-> rows]
Unreadable == [readable |-> FALSE, header |-> <<>>, rows |-> <<>>]

cellSky == StrV(<<" ", "S", "k", "y">>)
cellMoon == StrV(<<"m", "o", "o", "n", " ">>)
cellBlank == StrV(<<" ", " ">>)

\* the per-source files the input directory may hold
SampleTables ==
    {Table(<<sClaim, sLabel>>,
           <<<<cellSky, IntV(1)>>, <<NaN, IntV(0)>>, <<cellMoon, IntV(0)>>>>),
     Table(<<sClaim, sLabel>>,
           <<<<cellMoon, IntV(1)>>, <<cellSky, IntV(1)>>, <<cellMoon, IntV(0)>>>>),
     Table(<<<<" ", "C", "l", "a", "i", "m">>, <<"L", "A", "B", "E", "L", " ">>>>,
           <<<<cellMoon, IntV(1)>>, <<cellBlank, IntV(0)>>>>),
     Table(<<sClaim, sLabel>>,
           <<<<cellBlank, IntV(1)>>, <<NaN, IntV(0)>>>>),
     Table(<<sText, sLabel>>, <<<<cellSky, IntV(1)>>>>),
     Table(<<sClaim, sText>>, <<<<cellSky, cellMoon>>, <<cellMoon, cellSky>>>>),
     Unreadable}

\* the entries of the input directory
MergeNames ==
    {<<"a", ".", "c", "s", "v">>, <<"b", ".", "C", "S", "V">>, <<"c", ".", "c", "s", "v">>,
     <<"n", ".", "t", "x", "t">>}

\* df.columns = [c.strip().lower() for c in df.columns]
NormalizeHeader(header) == [i \in 1..Len(header) |-> Lower(Strip(header[i]))]

\* df[name]: the cells of the named column, row by row
ColumnOf(header, rows, name) ==
    [r \in 1..Len(rows) |-> rows[r][IndexOf(header, name) + 1]]

\* the provenance tag with the extension left on
SourceTag_KeepsExtension(file) == file

\* os.path.splitext(file)[0]
SourceTag(file) == SplitExtRoot(file)

\* lines 50-56: project to claim and label, tag the source, drop the rows
\* with a missing claim, trim and lower-case the claim, drop the blank ones
CleanFrame(file, header, rows) ==
    LET claims == ColumnOf(header, rows, sClaim)
        labels == ColumnOf(header, rows, sLabel)
        projected == [r \in 1..Len(rows) |->
                        [claim |-> claims[r], label |-> labels[r], source |-> SourceTag(file)]]
        notNa(row) == row.claim # NaN
        dropped == SelectSeq(projected, notNa)
        lowered == [r \in 1..Len(dropped) |->
                        [dropped[r] EXCEPT !.claim = StrV(Lower(Strip(Str(dropped[r].claim))))]]
        notBlank(row) == row.claim # StrV(<<>>)
    IN  SelectSeq(lowered, notBlank)

RECURSIVE Concat(_)
\* pd.concat(frames, ignore_index=True)
Concat(frames) == IF frames = <<>> THEN <<>> ELSE Head(frames) \o Concat(Tail(frames))

\* result["label"].value_counts(dropna=False)
ValueCounts(rows) ==
    {[label |-> l, count |-> Cardinality({r \in 1..Len(rows) : rows[r].label = l})]
        : l \in {rows[r].label : r \in 1..Len(rows)}}

\* the Metrics table
Metrics(fs, result) ==
    [metrics |-> <<[metric |-> "Files processed", value |-> Len(fs)],
                   [metric |-> "Total rows (after cleaning)", value |-> Len(result)]>>,
     labels |-> ValueCounts(result)]

\* "if not combined": no frame was appended
NoFrames(frames) == frames = <<>>

InitMerge ==
    /\ exists \in BOOLEAN
    /\ \E l \in {m \in SeqsOf(MergeNames, 0, MaxFiles) : Injective(m)} :
        dir \in {e \in [1..Len(l) -> [name : MergeNames, table : SampleTables]] :
                    \A i \in 1..Len(l) :
                        /\ e[i].name = l[i]
                        /\ ~IsCsv(l[i]) => e[i].table = Unreadable}
    /\ ~exists => dir = <<>>
    /\ files = <<>> /\ fpos = 0 /\ combined = <<>> /\ skipLog = <<>>
    /\ summary = [metrics |-> <<>>, labels |-> {}]
    /\ output = [written |-> FALSE, rows |-> <<>>]
    /\ exitCode = 0
    /\ cpc = "start"
    /\ SelIdle /\ NormIdle /\ MainIdle

isCsvEntry(e) == IsCsv(e.name)

\* the input directory does not exist: sys.exit(1)
DirMissing ==
    /\ cpc = "start" /\ ~exists
    /\ exitCode' = 1
    /\ cpc' = "done"
    /\ UNCHANGED <<exists, dir, files, fpos, combined, skipLog, summary, output,
                   selVars, normVars, mainVars>>

\* no .csv file in the directory: sys.exit(0)
NoCsvFiles ==
    /\ cpc = "start" /\ exists
    /\ SelectSeq(dir, isCsvEntry) = <<>>
    /\ exitCode' = 0
    /\ cpc' = "done"
    /\ UNCHANGED <<exists, dir, files, fpos, combined, skipLog, summary, output,
                   selVars, normVars, mainVars>>

\* files = [f for f in os.listdir(input_dir) if f.lower().endswith(".csv")]
Discover ==
    /\ cpc = "start" /\ exists
    /\ SelectSeq(dir, isCsvEntry) # <<>>
    /\ files' = SelectSeq(dir, isCsvEntry)
    /\ cpc' = "loop"
    /\ UNCHANGED <<exists, dir, fpos, combined, skipLog, summary, output, exitCode,
                   selVars, normVars, mainVars>>

File == files[fpos + 1]

\* pd.read_csv raises: the except clause reports the file
ReadError ==
    /\ cpc = "loop" /\ fpos < Len(files)
    /\ ~File.table.readable
    /\ skipLog' = Append(skipLog, [file |-> File.name, why |-> "error"])
    /\ fpos' = fpos + 1
    /\ UNCHANGED <<exists, dir, files, combined, summary, output, exitCode, cpc,
                   selVars, normVars, mainVars>>

\* "claim" or "label" is not among the normalised column names: continue
MissingColumn ==
    /\ cpc = "loop" /\ fpos < Len(files)
    /\ File.table.readable
    /\ LET h == NormalizeHeader(File.table.header)
       IN  /\ ~Contains(h, sClaim) \/ ~Contains(h, sLabel)
           /\ skipLog' = Append(skipLog,
                [file |-> File.name,
                 why |-> IF ~Contains(h, sClaim) THEN "missing claim" ELSE "missing label"])
    /\ fpos' = fpos + 1
    /\ UNCHANGED <<exists, dir, files, combined, summary, output, exitCode, cpc,
                   selVars, normVars, mainVars>>

\* the file is cleaned and its frame appended
AppendFrame ==
    /\ cpc = "loop" /\ fpos < Len(files)
    /\ File.table.readable
    /\ LET h == NormalizeHeader(File.table.header)
       IN  /\ Contains(h, sClaim) /\ Contains(h, sLabel)
           /\ combined' = Append(combined, CleanFrame(File.name, h, File.table.rows))
    /\ fpos' = fpos + 1
    /\ UNCHANGED <<exists, dir, files, skipLog, summary, output, exitCode, cpc,
                   selVars, normVars, mainVars>>

\* "No valid rows found across any files.": sys.exit(1)
NoValidRows ==
    /\ cpc = "loop" /\ fpos = Len(files)
    /\ NoFrames(combined)
    /\ exitCode' = 1
    /\ cpc' = "done"
    /\ UNCHANGED <<exists, dir, files, fpos, combined, skipLog, summary, output,
                   selVars, normVars, mainVars>>

\* concat, the Metrics table, to_csv
WriteCorpus ==
    /\ cpc = "loop" /\ fpos = Len(files)
    /\ ~NoFrames(combined)
    /\ summary' = Metrics(files, Concat(combined))
    /\ output' = [written |-> TRUE, rows |-> Concat(combined)]
    /\ cpc' = "done"
    /\ UNCHANGED <<exists, dir, files, fpos, combined, skipLog, exitCode,
                   selVars, normVars, mainVars>>

NextMerge ==
    \/ DirMissing
    \/ NoCsvFiles
    \/ Discover
    \/ ReadError
    \/ MissingColumn
    \/ AppendFrame
    \/ NoValidRows
    \/ WriteCorpus

SpecMerge == InitMerge /\ [][NextMerge]_vars

(***************************************************************************)
(* Properties of the merge                                                 *)
(***************************************************************************)
\* the position of a canonical column among a file's trimmed, lower-cased
\* column names; 0 when the file has no such column
CanonicalAt(e, name) ==
    IF \E p \in 1..Len(e.table.header) : Lower(Strip(e.table.header[p])) = name
    THEN CHOOSE p \in 1..Len(e.table.header) : Lower(Strip(e.table.header[p])) = name
    ELSE 0

LacksColumn(e) ==
    e.table.readable /\ (CanonicalAt(e, sClaim) = 0 \/ CanonicalAt(e, sLabel) = 0)

\* a file name without its four-character extension
NameWithoutExt(name) == SubSeq(name, 1, Len(name) - 4)

RowsFrom(rows, name) == {r \in 1..Len(rows) : rows[r].source = NameWithoutExt(name)}

SkippedCount == Cardinality({i \in 1..Len(files) : LacksColumn(files[i])})

ReportsSkipped ==
    \E m \in 1..Len(summary.metrics) :
        /\ summary.metrics[m].metric = "Files skipped"
        /\ summary.metrics[m].value = SkippedCount

ReportsProcessed ==
    \E m \in 1..Len(summary.metrics) :
        /\ summary.metrics[m].metric = "Files processed"
        /\ summary.metrics[m].value = Len(files)

\* C3: every per-source file that lacks the claim or the label column (names
\* trimmed and lower-cased) contributes zero rows to the corpus and is
\* counted in a reported "skipped" total; merging a valid file and a file
\* without a label column reports skip count 1 and files-processed count 2.
C3_SkippedFilesCounted ==
    (cpc = "done" /\ output.written) =>
        \A i \in 1..Len(files) :
            LacksColumn(files[i]) =>
                /\ RowsFrom(output.rows, files[i].name) = {}
                /\ ReportsProcessed
                /\ ReportsSkipped

\* a row of a file that survives the column check and the blank-claim filter
ValidRow(e, r) ==
    /\ e.table.readable /\ ~LacksColumn(e)
    /\ e.table.rows[r][CanonicalAt(e, sClaim)].t = "str"
    /\ Strip(e.table.rows[r][CanonicalAt(e, sClaim)].s) # <<>>

YieldsValidRow(e) == IsCsv(e.name) /\ \E r \in 1..Len(e.table.rows) : ValidRow(e, r)

RunFailed == exitCode # 0 /\ ~output.written

\* C4: a merge run over an existing input directory fails (non-zero exit, no
\* corpus written) if and only if no file contributes a row that survives
\* the column check and the blank-claim filter; otherwise the corpus is
\* written.  Stated for the runs that found at least one .csv file.
C4_FailsIffNoValidRow ==
    (cpc = "done" /\ exists /\ files # <<>>) =>
        /\ RunFailed <=> ~\E i \in 1..Len(dir) : YieldsValidRow(dir[i])
        /\ ~RunFailed => output.written

\* the rows a file contributes, as the specification words them
Surviving(e) ==
    IF ~e.table.readable \/ LacksColumn(e) THEN <<>>
    ELSE LET valid(r) == r[CanonicalAt(e, sClaim)].t = "str"
                            /\ Strip(r[CanonicalAt(e, sClaim)].s) # <<>>
             kept == SelectSeq(e.table.rows, valid)
         IN  [r \in 1..Len(kept) |->
                [claim |-> StrV(Lower(Strip(kept[r][CanonicalAt(e, sClaim)].s))),
                 label |-> kept[r][CanonicalAt(e, sLabel)],
                 source |-> NameWithoutExt(e.name)]]

RECURSIVE ExpectedCorpus(_)
ExpectedCorpus(fs) ==
    IF fs = <<>> THEN <<>> ELSE Surviving(Head(fs)) \o ExpectedCorpus(Tail(fs))

Reverse(seq) == [i \in 1..Len(seq) |-> seq[Len(seq) + 1 - i]]

\* the multiset of the rows of a frame
BagOfRows(rows) ==
    [x \in {rows[r] : r \in 1..Len(rows)} |-> Cardinality({r \in 1..Len(rows) : rows[r] = x})]

\* C5: the corpus is the concatenation of the surviving rows of each file in
\* discovery order, within-file order kept; every row's source tag is the
\* base name of the file it came from; and the files taken in the opposite
\* order give the same multiset of (claim, label, source) rows.
C5_CorpusIsOrderedConcat ==
    (cpc = "done" /\ output.written) =>
        /\ output.rows = ExpectedCorpus(files)
        /\ \A r \in 1..Len(output.rows) :
            \E i \in 1..Len(files) :
                /\ output.rows[r].source \o SubSeq(files[i].name, Len(files[i].name) - 3, Len(files[i].name))
                        = files[i].name
                /\ \E k \in 1..Len(Surviving(files[i])) : Surviving(files[i])[k] = output.rows[r]
        /\ BagOfRows(output.rows) = BagOfRows(ExpectedCorpus(Reverse(files)))

\* two files that both contribute, the first with a dropped row between two
\* kept ones
C5_Witness ==
    /\ cpc = "done" /\ output.written
    /\ Len(files) = 2
    /\ Len(Surviving(files[1])) = 2 /\ Len(files[1].table.rows) = 3
    /\ Len(Surviving(files[2])) >= 1
    /\ Len(output.rows) = Len(Surviving(files[1])) + Len(Surviving(files[2]))
    /\ output.rows[1].source # output.rows[Len(output.rows)].source

====
